---- MODULE Spec2Model ----
(***************************************************************************)
(* TaskApp (src/app/app.py): a Flask application whose handlers            *)
(* authenticate a browser session and run parameterised SQL statements     *)
(* against a MySQL store through a connection pool.                        *)
(*                                                                         *)
(* The state is the pool handle and the number of connections that are out *)
(* of the pool, the tasks table with its AUTO_INCREMENT counter, the       *)
(* session of the browser, which signs in as one user or another, and the  *)
(* update_task handler that is between its SELECT and its UPDATE statement *)
(* while the browser goes on sending requests.                             *)
(*                                                                         *)
(* A handler is an operator from the state and the request to its result:  *)
(* the response it returns, what became of its connection, and the state   *)
(* it leaves.  Each action of Next takes one request and applies the       *)
(* handler's result.  Every handler is one action, except update_task,     *)
(* which issues two dependent statements under autocommit with no          *)
(* transaction and is therefore two steps.  The three SELECTs of get_stats *)
(* read the same table state here; no statement of it depends on another.  *)
(***************************************************************************)
EXTENDS Integers, FiniteSets, Sequences, TLC

VARIABLES db_pool, checked_out, tasks, next_id, session, put

vars == <<db_pool, checked_out, tasks, next_id, session, put>>

(***************************************************************************)
(* Bounds of the model.                                                    *)
(***************************************************************************)
\* rows the store may ever have inserted (the AUTO_INCREMENT id stops there)
MaxTasks == 2
(***************************************************************************)
(* Program constants.                                                      *)
(***************************************************************************)
pool_size == 5

\* SQL NULL, Python None and JSON null
NULL == "NULL"

\* the dates of the model, in calendar order; CURDATE() is one of them
Dates == <<"2024-01-01", "2024-01-02">>
Day(date) == CHOOSE i \in DOMAIN Dates : Dates[i] = date

(***************************************************************************)
(* The users table: provisioned outside the handlers, read only.           *)
(***************************************************************************)
Hash(password) == <<"bcrypt", password>>

users ==
  { [id |-> 1, username |-> "alice", password_hash |-> Hash("pwA"), first_name |-> "Alice"],
    [id |-> 2, username |-> "bob",   password_hash |-> Hash("pwB"), first_name |-> "Bob"] }

UserIds == {u.id : u \in users}

\* variant: a comparison that accepts every password
checkpw_Any(password, password_hash) == password_hash # ""

\* bcrypt.checkpw(password, hash)
checkpw(password, password_hash) == password_hash = Hash(password)

\* request.form of POST /login
LoginForms ==
  { [username |-> "alice",   password |-> "pwA"],
    [username |-> "bob",     password |-> "pwB"],
    [username |-> " alice ", password |-> "pwA"],
    [username |-> "alice",   password |-> "pwB"],
    [username |-> "nobody",  password |-> "pwA"],
    [username |-> "",        password |-> "pwA"],
    [username |-> "   ",     password |-> "pwA"],
    [username |-> "alice",   password |-> ""] }

\* str.strip() on the usernames of LoginForms
strip(s) ==
  CASE s = " alice " -> "alice"
    [] s = "   "     -> ""
    [] OTHER         -> s

(***************************************************************************)
(* The session of a browser: the keys it holds and their values.           *)
(***************************************************************************)
NoSession == [keys |-> {}, user_id |-> 0, username |-> "", first_name |-> ""]

SessionOf(user) ==
  [keys |-> {"user_id", "username", "first_name"},
   user_id |-> user.id, username |-> user.username, first_name |-> user.first_name]

(***************************************************************************)
(* JSON bodies.  keys is the set of keys of the object, v their values;    *)
(* null is TRUE when request.get_json() gives None.                        *)
(***************************************************************************)
Fields == {"title", "description", "status", "priority", "due_date"}

Blank == [title |-> "", description |-> "", status |-> "", priority |-> "", due_date |-> ""]

Json(keys, v) == [null |-> FALSE, keys |-> keys, v |-> v]

None == [null |-> TRUE, keys |-> {}, v |-> Blank]

\* data.get(key, default)
Get(data, key, default) == IF key \in data.keys THEN data.v[key] ELSE default

\* Python truth of a value of a body: "" and None are false
Truthy(x) == x \notin {"", NULL}

CreateBodies ==
  { None,
    Json({}, Blank),
    Json({"title"}, Blank),
    Json({"description"}, [Blank EXCEPT !.description = "d"]),
    Json({"title", "due_date"}, [Blank EXCEPT !.title = "a", !.due_date = Dates[1]]) }

UpdateBodies ==
  { None,
    Json({}, Blank),
    Json({"user_id"}, Blank),
    Json({"status"}, [Blank EXCEPT !.status = "completed"]),
    Json({"title", "description", "priority", "due_date"},
         [Blank EXCEPT !.title = "b", !.description = "d", !.priority = "low"]) }

\* tasks.status when the INSERT names no status (the schema's default)
DefaultStatus == "pending"

(***************************************************************************)
(* Responses.                                                              *)
(***************************************************************************)
\* status code, what is rendered / the redirect target / the message or
\* error of the JSON body, and the flashed message
Response(code, body, flash) == [code |-> code, body |-> body, flash |-> flash]

\* jsonify({'error': error}), code
Error(code, error) == Response(code, error, "")

\* what the store does to the statements of one handler: they run, no
\* connection can be had, or one of them raises
Outcomes == {"ok", "no_conn", "raise"}

(***************************************************************************)
(* The store.                                                              *)
(***************************************************************************)
TaskIds == DOMAIN tasks

\* an update_task handler is between its SELECT and its UPDATE
InFlight == put.busy

\* variant: db_pool is not tested before db_pool.get_connection()
get_db_connection_NoPoolTest(o) == checked_out < pool_size /\ o # "no_conn"

\* get_db_connection() returns a connection: the pool exists, it has a free
\* connection, and get_connection() raises no mysql.connector.Error
get_db_connection(o) == db_pool /\ checked_out < pool_size /\ o # "no_conn"

\* a handler's result: its response, what became of its connection
\*   none     get_db_connection() was not called
\*   refused  it returned None
\*   closed   conn.close() ran
\*   leaked   the handler returned without conn.close()
\*   held     the handler is still running
\* and the state it leaves
Result(resp, conn) ==
  [resp        |-> resp,
   conn        |-> conn,
   checked_out |-> IF conn \in {"leaked", "held"} THEN checked_out + 1 ELSE checked_out,
   tasks       |-> tasks,
   next_id     |-> next_id,
   session     |-> session,
   put         |-> put]

\* the except branch of a handler whose statement raised: the connection
\* was had and conn.close() is skipped
Raised == Result(Error(500, "exception"), "leaked")

\* if not conn: return jsonify({'error': 'Database connection failed'}), 500
NoConnection == Result(Error(500, "Database connection failed"), "refused")

\* variant: the statement without AND user_id = %s
Owned_ById(task_id, user_id) == task_id \in TaskIds

\* SELECT id FROM tasks WHERE id = %s AND user_id = %s
Owned(task_id, user_id) == task_id \in TaskIds /\ tasks[task_id].user_id = user_id

\* SELECT t.id, t.title, ..., u.username, u.first_name FROM tasks t
\* JOIN users u ON t.user_id = u.id WHERE t.user_id = %s
SelectTasks(user_id) ==
  { [id |-> id, title |-> tasks[id].title, description |-> tasks[id].description,
     status |-> tasks[id].status, priority |-> tasks[id].priority,
     due_date |-> tasks[id].due_date, username |-> u.username, first_name |-> u.first_name] :
    <<id, u>> \in {tu \in TaskIds \X users :
                     tasks[tu[1]].user_id = tu[2].id /\ tasks[tu[1]].user_id = user_id} }

\* variant: the statement without WHERE user_id = %s
status_counts_AllUsers(user_id) ==
  LET groups == {tasks[id].status : id \in TaskIds}
  IN  [s \in groups |-> Cardinality({id \in TaskIds : tasks[id].status = s})]

\* SELECT status, COUNT(*) as count FROM tasks WHERE user_id = %s GROUP BY status
status_counts(user_id) ==
  LET mine == {id \in TaskIds : tasks[id].user_id = user_id}
      groups == {tasks[id].status : id \in mine}
  IN  [s \in groups |-> Cardinality({id \in mine : tasks[id].status = s})]

\* SELECT priority, COUNT(*) as count FROM tasks WHERE user_id = %s GROUP BY priority
priority_counts(user_id) ==
  LET mine == {id \in TaskIds : tasks[id].user_id = user_id}
      groups == {tasks[id].priority : id \in mine}
  IN  [p \in groups |-> Cardinality({id \in mine : tasks[id].priority = p})]

\* variant: the statement without AND status != 'completed'
Overdue_AnyStatus(user_id, today) ==
  {id \in TaskIds : /\ tasks[id].user_id = user_id
                    /\ tasks[id].due_date # NULL
                    /\ Day(tasks[id].due_date) < Day(today)}

\* the rows counted by SELECT COUNT(*) FROM tasks WHERE user_id = %s
\* AND due_date < CURDATE() AND status != 'completed'
Overdue(user_id, today) ==
  {id \in TaskIds : /\ tasks[id].user_id = user_id
                    /\ tasks[id].due_date # NULL
                    /\ Day(tasks[id].due_date) < Day(today)
                    /\ tasks[id].status # "completed"}

Range(seq) == {seq[i] : i \in DOMAIN seq}

RECURSIVE Sum(_)
\* sum(counts.values())
Sum(counts) ==
  IF DOMAIN counts = {} THEN 0
  ELSE LET k == CHOOSE k \in DOMAIN counts : TRUE
       IN  counts[k] + Sum([j \in DOMAIN counts \ {k} |-> counts[j]])

(***************************************************************************)
(* Session guard.                                                          *)
(***************************************************************************)
\* variant: a route without the decorator
login_required_Off == TRUE

\* 'user_id' in session
login_required == "user_id" \in session.keys

\* flash(...); return redirect(url_for('login'))
Redirected ==
  Result(Response(302, "login", "Please log in to access this page"), "none")

(***************************************************************************)
(* Pages and authentication.                                               *)
(***************************************************************************)
index ==
  IF "user_id" \in session.keys
  THEN Result(Response(302, "dashboard", ""), "none")
  ELSE Result(Response(200, "index.html", ""), "none")

\* render_template('login.html') after flash(message, 'error')
LoginPage(message, conn) == Result(Response(200, "login.html", message), conn)

login(method, form, o) ==
  LET username == strip(form.username)
      password == form.password
      found == {u \in users : u.username = username}
  IN
  IF method # "POST" THEN LoginPage("", "none")
  ELSE IF username = "" \/ password = ""
  THEN LoginPage("Please enter both username and password", "none")
  ELSE IF ~get_db_connection(o) THEN LoginPage("Database connection error", "refused")
  ELSE IF o = "raise" THEN LoginPage("An error occurred during login", "leaked")
  ELSE IF \E u \in found : checkpw(password, u.password_hash)
  THEN LET user == CHOOSE u \in found : checkpw(password, u.password_hash)
       IN  [Result(Response(302, "dashboard", "Welcome back"), "closed")
              EXCEPT !.session = SessionOf(user)]
  ELSE LoginPage("Invalid username or password", "closed")

logout ==
  [Result(Response(302, "index", "You have been logged out successfully"), "none")
     EXCEPT !.session = NoSession]

dashboard ==
  IF ~login_required THEN Redirected
  ELSE Result(Response(200, "dashboard.html", ""), "none")

\* jsonify(health_data), status_code; flash holds health_data['database']
health_check(o) ==
  IF ~get_db_connection(o) THEN Result(Response(503, "unhealthy", "disconnected"), "refused")
  ELSE IF o = "raise" THEN Result(Response(503, "unhealthy", "error"), "leaked")
  ELSE Result(Response(200, "healthy", "connected"), "closed")

(***************************************************************************)
(* The task API.                                                           *)
(***************************************************************************)
\* json is the body of a 200
get_tasks(o) ==
  IF ~login_required THEN [result |-> Redirected, json |-> {}]
  ELSE IF ~get_db_connection(o) THEN [result |-> NoConnection, json |-> {}]
  ELSE IF o = "raise" THEN [result |-> Raised, json |-> {}]
  ELSE [result |-> Result(Response(200, "tasks", ""), "closed"),
        json   |-> SelectTasks(session.user_id)]

\* the row of INSERT INTO tasks (user_id, title, description, priority, due_date)
NewRow(user_id, data) ==
  [user_id     |-> user_id,
   title       |-> data.v.title,
   description |-> Get(data, "description", ""),
   status      |-> DefaultStatus,
   priority    |-> Get(data, "priority", "medium"),
   due_date    |-> IF Truthy(Get(data, "due_date", NULL)) THEN data.v.due_date ELSE NULL]

\* variant: 'title' not in data, which lets an empty title pass
TitleMissing_KeyOnly(data) == data.null \/ "title" \notin data.keys

\* not data or not data.get('title')
TitleMissing(data) == data.null \/ data.keys = {} \/ ~Truthy(Get(data, "title", NULL))

create_task(data, o) ==
  IF ~login_required THEN Redirected
  ELSE IF TitleMissing(data) THEN Result(Error(400, "Title is required"), "none")
  ELSE IF ~get_db_connection(o) THEN NoConnection
  ELSE IF o = "raise" THEN Raised
  ELSE [Result(Response(201, "Task created successfully", ""), "closed")
          EXCEPT !.tasks = [id \in TaskIds \cup {next_id} |->
                              IF id = next_id THEN NewRow(session.user_id, data)
                              ELSE tasks[id]],
                 !.next_id = next_id + 1]

\* the keys of data that update_task puts in update_fields
UpdateFields(data) == data.keys \cap Fields

\* variant: an UPDATE that sets all five columns, an absent key to its default
Updated_AllColumns(row, data) ==
  [user_id     |-> row.user_id,
   title       |-> Get(data, "title", row.title),
   description |-> Get(data, "description", ""),
   status      |-> Get(data, "status", row.status),
   priority    |-> Get(data, "priority", "medium"),
   due_date    |-> IF Truthy(Get(data, "due_date", NULL)) THEN data.v.due_date ELSE NULL]

\* a row after UPDATE tasks SET <update_fields> WHERE id = %s
Updated(row, data) ==
  [user_id     |-> row.user_id,
   title       |-> IF "title" \in data.keys THEN data.v.title ELSE row.title,
   description |-> IF "description" \in data.keys THEN data.v.description ELSE row.description,
   status      |-> IF "status" \in data.keys THEN data.v.status ELSE row.status,
   priority    |-> IF "priority" \in data.keys THEN data.v.priority ELSE row.priority,
   due_date    |-> IF "due_date" \in data.keys
                   THEN (IF Truthy(data.v.due_date) THEN data.v.due_date ELSE NULL)
                   ELSE row.due_date]

\* no update_task handler is running
Idle == [busy |-> FALSE, user_id |-> 0, task_id |-> 0, data |-> None]

\* update_task from its start to the statement before cursor.execute(query,
\* values): the ownership SELECT has run and the SET list is built.  The
\* handler returns here unless an UPDATE is to run.
update_task(task_id, data, o) ==
  IF ~login_required THEN Redirected
  ELSE IF ~get_db_connection(o) THEN NoConnection
  ELSE IF o = "raise" THEN Raised
  ELSE IF ~Owned(task_id, session.user_id)
  THEN Result(Error(404, "Task not found"), "closed")
  ELSE IF data.null THEN Raised   \* 'title' in None is a TypeError
  ELSE IF UpdateFields(data) = {}
  THEN Result(Response(200, "Task updated successfully", ""), "closed")
  ELSE [Result(Response(0, "", ""), "held")
          EXCEPT !.put = [busy |-> TRUE, user_id |-> session.user_id,
                          task_id |-> task_id, data |-> data]]

\* update_task from cursor.execute(query, values) to its return, for the
\* handler that is held there; its connection is already counted
update_execute(o) ==
  IF o = "raise"
  THEN [Result(Error(500, "exception"), "leaked")
          EXCEPT !.checked_out = checked_out, !.put = Idle]
  ELSE [Result(Response(200, "Task updated successfully", ""), "closed")
          EXCEPT !.checked_out = checked_out - 1,
                 !.put = Idle,
                 !.tasks = [id \in TaskIds |->
                              IF id = put.task_id THEN Updated(tasks[id], put.data)
                              ELSE tasks[id]]]

delete_task(task_id, o) ==
  IF ~login_required THEN Redirected
  ELSE IF ~get_db_connection(o) THEN NoConnection
  ELSE IF o = "raise" THEN Raised
  ELSE IF ~Owned(task_id, session.user_id)    \* cursor.rowcount == 0
  THEN Result(Error(404, "Task not found"), "closed")
  ELSE [Result(Response(200, "Task deleted successfully", ""), "closed")
          EXCEPT !.tasks = [id \in TaskIds \ {task_id} |-> tasks[id]]]

\* json is the body of a 200; today is CURDATE() when the third SELECT runs
get_stats(today, o) ==
  LET user_id == session.user_id
      none == [status_counts |-> <<>>, priority_counts |-> <<>>,
               overdue_count |-> 0, total_tasks |-> 0]
  IN
  IF ~login_required THEN [result |-> Redirected, json |-> none]
  ELSE IF ~get_db_connection(o) THEN [result |-> NoConnection, json |-> none]
  ELSE IF o = "raise" THEN [result |-> Raised, json |-> none]
  ELSE [result |-> Result(Response(200, "stats", ""), "closed"),
        json   |-> [status_counts   |-> status_counts(user_id),
                    priority_counts |-> priority_counts(user_id),
                    overdue_count   |-> Cardinality(Overdue(user_id, today)),
                    total_tasks     |-> Sum(status_counts(user_id))]]

(***************************************************************************)
(* The state machine.                                                      *)
(***************************************************************************)
\* The process has started: db_pool is the pool or, if its creation raised,
\* None.  A session is a cookie signed with app.secret_key that the browser
\* keeps, so the browser may hold one that an earlier process issued.
Init ==
  /\ db_pool \in BOOLEAN
  /\ checked_out = 0
  /\ tasks = <<>>
  /\ next_id = 1
  /\ session \in {NoSession} \cup {SessionOf(u) : u \in users}
  /\ put = Idle

\* the state a handler leaves; no statement assigns db_pool
Apply(r) ==
  /\ r.next_id <= MaxTasks + 1
  /\ checked_out' = r.checked_out
  /\ tasks' = r.tasks
  /\ next_id' = r.next_id
  /\ session' = r.session
  /\ put' = r.put
  /\ UNCHANGED db_pool

\* the task ids a request names
Ids == 1..MaxTasks

Index == Apply(index)

\* a GET carries no form and reaches no statement
LoginRequests ==
  {<<"GET", [username |-> "", password |-> ""], "ok">>}
    \cup {<<"POST", f, o>> : <<f, o>> \in LoginForms \X Outcomes}

Login == \E q \in LoginRequests : Apply(login(q[1], q[2], q[3]))

Logout == Apply(logout)

Dashboard == Apply(dashboard)

HealthCheck == \E o \in Outcomes : Apply(health_check(o))

GetTasks == \E o \in Outcomes : Apply(get_tasks(o).result)

CreateTask == \E d \in CreateBodies, o \in Outcomes : Apply(create_task(d, o))

\* one update_task handler runs at a time
UpdateTask ==
  /\ ~InFlight
  /\ \E id \in Ids, d \in UpdateBodies, o \in Outcomes : Apply(update_task(id, d, o))

UpdateExecute ==
  InFlight /\ \E o \in {"ok", "raise"} : Apply(update_execute(o))

DeleteTask == \E id \in Ids, o \in Outcomes : Apply(delete_task(id, o))

GetStats == \E today \in Range(Dates), o \in Outcomes : Apply(get_stats(today, o).result)

Next ==
  \/ Index
  \/ Login
  \/ Logout
  \/ Dashboard
  \/ HealthCheck
  \/ GetTasks
  \/ CreateTask
  \/ UpdateTask
  \/ UpdateExecute
  \/ DeleteTask
  \/ GetStats

Spec == Init /\ [][Next]_vars

(***************************************************************************)
(* The requests the browser may send in a state, and their results.        *)
(***************************************************************************)
\* the handler's statements run: it has a connection and none raises
Answers(o) == o = "ok" /\ get_db_connection(o)

Authenticated == "user_id" \in session.keys

Anonymous == "user_id" \notin session.keys

\* P holds of the result of every /api request that has the bodies ds for
\* POST /api/tasks; a PUT starts when no update_task handler is running
EveryApi(ds, P(_)) ==
  \A o \in Outcomes :
    /\ P(get_tasks(o).result)
    /\ \A d \in ds : P(create_task(d, o))
    /\ \A id \in Ids : /\ P(delete_task(id, o))
                       /\ \A d \in UpdateBodies : InFlight \/ P(update_task(id, d, o))
    /\ \A today \in Range(Dates) : P(get_stats(today, o).result)

\* P holds of the result of every request to a protected route
EveryProtected(P(_)) == P(dashboard) /\ EveryApi(CreateBodies, P)

\* P holds of the result of every step the model may take
EveryResult(P(_)) ==
  /\ InFlight => \A o \in {"ok", "raise"} : P(update_execute(o))
  /\ EveryProtected(P)
  /\ P(index) /\ P(logout)
  /\ \A o \in Outcomes : P(health_check(o))
  /\ \A q \in LoginRequests : P(login(q[1], q[2], q[3]))

\* r leaves the store and the running handler as they are
Untouched(r) ==
  r.tasks = tasks /\ r.next_id = next_id /\ r.checked_out = checked_out /\ r.put = put

(***************************************************************************)
(* C1.  For users A # B, after any sequence of requests: no row of A is in *)
(* the GET /api/tasks response of a session of B; a PUT or DELETE of B on  *)
(* a row of A is answered 404 whenever its statement runs (500 when the    *)
(* store fails) and in no case changes a row; the UPDATE of a handler of B *)
(* leaves every row of A as it is.  A row keeps the user_id of the session *)
(* that created it and its id is never given to another row.               *)
(***************************************************************************)
C1_Isolation ==
  /\ \A id \in TaskIds : id < next_id
  /\ EveryResult(LAMBDA r :
       \/ r.tasks = tasks
       \/ /\ \A id \in TaskIds \cap DOMAIN r.tasks : r.tasks[id].user_id = tasks[id].user_id
          /\ \A id \in DOMAIN r.tasks \ TaskIds :
               id = next_id /\ r.next_id > id /\ r.tasks[id].user_id = session.user_id)
  /\ Authenticated =>
       LET B == session.user_id
           others == {id \in TaskIds : tasks[id].user_id # B}
       IN  /\ \A o \in Outcomes : \A row \in get_tasks(o).json : row.id \notin others
           /\ \A id \in others, o \in Outcomes :
                /\ \A d \in UpdateBodies :
                     LET r == update_task(id, d, o)
                     IN  InFlight \/ /\ r.tasks = tasks /\ r.put = put
                                     /\ r.resp.code \in {404, 500}
                                     /\ Answers(o) => r.resp = Error(404, "Task not found")
                /\ LET r == delete_task(id, o)
                   IN  /\ r.tasks = tasks
                       /\ r.resp.code \in {404, 500}
                       /\ Answers(o) => r.resp = Error(404, "Task not found")
  /\ InFlight =>
       \A o \in {"ok", "raise"} : \A id \in TaskIds :
         tasks[id].user_id # put.user_id => update_execute(o).tasks[id] = tasks[id]

\* B lists a row of its own and is answered 404 for a PUT and a DELETE on a row of A
C1_Witness ==
  /\ Authenticated /\ ~InFlight
  /\ get_tasks("ok").json # {}
  /\ \E id \in TaskIds :
       /\ tasks[id].user_id # session.user_id
       /\ update_task(id, Json({"status"}, [Blank EXCEPT !.status = "completed"]), "ok").resp.code = 404
       /\ delete_task(id, "ok").resp.code = 404

(***************************************************************************)
(* C2.  POST /api/tasks of a signed-in session with no body, with no title *)
(* or with an empty title returns 400 whatever the store does, asks for no *)
(* connection and leaves the table and its id counter as they are.         *)
(***************************************************************************)
NoTitle == {d \in CreateBodies : d.null \/ "title" \notin d.keys \/ d.v.title = ""}

C2_TitleRequired ==
  Authenticated =>
    \A d \in NoTitle, o \in Outcomes :
      LET r == create_task(d, o)
      IN  /\ r.resp = Error(400, "Title is required")
          /\ r.conn = "none"
          /\ Untouched(r)

\* a body without a title is refused while the table holds a row
C2_Witness ==
  /\ Authenticated
  /\ TaskIds # {}
  /\ \A d \in NoTitle : create_task(d, "ok").resp.code = 400
  /\ Cardinality(NoTitle) >= 3

(***************************************************************************)
(* C3.  The UPDATE of PUT /api/tasks/{id} on a row that exists sets each   *)
(* of title, description, status, priority, due_date whose key is in the   *)
(* body to the body's value (a false due_date to NULL), keeps every other  *)
(* column of the row and every other row, and is answered 200; the fields  *)
(* it applies are those the request carried.  A PUT of the owner whose     *)
(* body holds none of the five keys is answered 200 whenever its statement *)
(* runs and changes nothing.                                               *)
(***************************************************************************)
\* the value column f has after an UPDATE that sets it from body d
Bound(d, f) == IF f = "due_date" /\ d.v[f] \in {"", NULL} THEN NULL ELSE d.v[f]

C3_PartialUpdate ==
  /\ InFlight =>
       LET id == put.task_id
           d == put.data
           r == update_execute("ok")
       IN  /\ r.resp = Response(200, "Task updated successfully", "")
           /\ DOMAIN r.tasks = TaskIds
           /\ \A j \in TaskIds \ {id} : r.tasks[j] = tasks[j]
           /\ id \in TaskIds =>
                /\ r.tasks[id].user_id = tasks[id].user_id
                /\ \A f \in Fields :
                     r.tasks[id][f] = IF f \in d.keys THEN Bound(d, f) ELSE tasks[id][f]
  /\ (Authenticated /\ ~InFlight) =>
       \A id \in Ids, d \in UpdateBodies, o \in Outcomes :
         LET r == update_task(id, d, o)
         IN  /\ r.tasks = tasks
             /\ r.put.busy => r.put.task_id = id /\ r.put.data = d
             /\ (Owned(id, session.user_id) /\ Answers(o) /\ ~d.null /\ d.keys \cap Fields = {})
                  => /\ r.resp = Response(200, "Task updated successfully", "")
                     /\ ~r.put.busy

\* a row that a PUT of its title, description, priority and due_date and a
\* PUT of its status have changed, and a PUT with no field on it
C3_Witness ==
  /\ Authenticated /\ ~InFlight
  /\ \E id \in TaskIds :
       /\ Owned(id, session.user_id)
       /\ tasks[id].title = "b" /\ tasks[id].description = "d" /\ tasks[id].due_date = NULL
       /\ tasks[id].status = "completed"
       /\ update_task(id, Json({}, Blank), "ok").resp.code = 200

(***************************************************************************)
(* C4.  In every state and for every signed-in user whose request reaches  *)
(* the store, total_tasks of GET /api/stats is the sum of the values of    *)
(* status_counts and is the number of rows of GET /api/tasks.              *)
(***************************************************************************)
C4_TotalTasks ==
  (Authenticated /\ Answers("ok")) =>
    \A today \in Range(Dates) :
      LET stats == get_stats(today, "ok").json
          rows == get_tasks("ok").json
      IN  /\ stats.total_tasks = Sum(stats.status_counts)
          /\ stats.total_tasks = Cardinality(rows)
          /\ stats.total_tasks = Cardinality({id \in TaskIds : tasks[id].user_id = session.user_id})

\* a user with a pending and a completed row
C4_Witness ==
  LET stats == get_stats(Dates[1], "ok").json
  IN  /\ Authenticated /\ Answers("ok")
      /\ Cardinality(DOMAIN stats.status_counts) = 2
      /\ stats.total_tasks = 2
      /\ Cardinality(get_tasks("ok").json) = 2

(***************************************************************************)
(* C5.  The rows overdue_count counts hold no row whose status is          *)
(* "completed", whatever its due_date and the date; and the UPDATE of a    *)
(* PUT that carries status "completed" leaves the row with that status, so *)
(* that no later GET /api/stats counts it while it keeps it.               *)
(***************************************************************************)
C5_Overdue ==
  /\ Authenticated =>
       \A today \in Range(Dates) :
         LET u == session.user_id
             stats == get_stats(today, "ok").json
         IN  /\ \A id \in Overdue(u, today) : tasks[id].status # "completed"
             /\ Answers("ok") =>
                  /\ stats.overdue_count = Cardinality(Overdue(u, today))
                  /\ stats.overdue_count <=
                       Cardinality({id \in TaskIds : /\ tasks[id].user_id = u
                                                     /\ tasks[id].status # "completed"})
  /\ InFlight =>
       LET id == put.task_id
           d == put.data
       IN  (id \in TaskIds /\ "status" \in d.keys /\ d.v.status = "completed")
             => update_execute("ok").tasks[id].status = "completed"

\* a completed row whose due_date is past is not counted, and a PUT is
\* about to complete a row that is counted
C5_Witness ==
  /\ Authenticated /\ InFlight
  /\ \E id \in TaskIds :
       /\ tasks[id].user_id = session.user_id
       /\ tasks[id].status = "completed"
       /\ tasks[id].due_date = Dates[1]
  /\ put.task_id \in Overdue(session.user_id, Dates[2])
  /\ put.data.v.status = "completed"
  /\ get_stats(Dates[2], "ok").json.overdue_count = 1

(***************************************************************************)
(* C6.  POST /login with the username of a user and a wrong password and   *)
(* POST /login with a username no user has give the same result under the  *)
(* same behaviour of the store: the login page, the same message, which is *)
(* "Invalid username or password" whenever the SELECT runs, the same fate  *)
(* of the connection, and a session with no key written.                   *)
(***************************************************************************)
WrongPassword ==
  {f \in LoginForms : /\ f.password # ""
                      /\ \E u \in users : /\ u.username = f.username
                                          /\ u.password_hash # Hash(f.password)}

UnknownUser ==
  {f \in LoginForms : /\ f.password # ""
                      /\ f.username \notin {"", "   "}
                      /\ \A u \in users : u.username # f.username /\ " " \o u.username \o " " # f.username}

C6_LoginOutcome ==
  \A o \in Outcomes, f1 \in WrongPassword, f2 \in UnknownUser :
    LET r1 == login("POST", f1, o)
        r2 == login("POST", f2, o)
    IN  /\ r1 = r2
        /\ r1.resp.code = 200 /\ r1.resp.body = "login.html"
        /\ Answers(o) => r1.resp.flash = "Invalid username or password"
        /\ r1.session = session
        /\ r1.tasks = tasks

\* both logins are refused with the message while the table holds a row
C6_Witness ==
  /\ Anonymous
  /\ TaskIds # {}
  /\ \E f1 \in WrongPassword, f2 \in UnknownUser :
       /\ login("POST", f1, "ok").resp.flash = "Invalid username or password"
       /\ login("POST", f2, "ok").resp.flash = "Invalid username or password"

(***************************************************************************)
(* C7.  GET /logout leaves a session with no key, asks for no connection   *)
(* and redirects, and does the same when the session has no key already.   *)
(* Every request of a session without user_id to /dashboard, /api/tasks,   *)
(* /api/tasks/{id} and /api/stats is redirected to login, asks for no      *)
(* connection, and leaves the table, the pool and the session as they are; *)
(* and only a successful POST /login gives such a session a user_id.       *)
(***************************************************************************)
C7_Logout ==
  /\ LET r == logout
     IN  /\ r.session.keys = {} /\ r.session = NoSession
         /\ r.resp = Response(302, "index", "You have been logged out successfully")
         /\ r.conn = "none"
         /\ Untouched(r)
  /\ Anonymous =>
       /\ logout.session = session
       /\ EveryProtected(LAMBDA r :
            /\ r.resp.code = 302 /\ r.resp.body = "login"
            /\ r.conn = "none"
            /\ Untouched(r)
            /\ r.session = session)
       /\ EveryResult(LAMBDA r :
            "user_id" \in r.session.keys
              => /\ r.resp = Response(302, "dashboard", "Welcome back")
                 /\ \E f \in LoginForms : r = login("POST", f, "ok"))

\* the session was signed out after it created a row
C7_Witness ==
  /\ Anonymous
  /\ \E id \in TaskIds : tasks[id].title = "a"
  /\ get_tasks("ok").result.resp.code = 302
  /\ db_pool /\ checked_out = 0

(***************************************************************************)
(* C8.  Every handler that gets a connection closes it before it returns,  *)
(* on every path, so that the pool misses no connection whenever no        *)
(* handler is running.                                                     *)
(***************************************************************************)
C8_Released == ~InFlight => checked_out = 0

(***************************************************************************)
(* C9.  A PUT /api/tasks/{id} that carries a field and is answered 200 has *)
(* run its UPDATE on a row that exists and that the caller owns when the   *)
(* UPDATE runs, whatever other requests run between its two statements.    *)
(***************************************************************************)
C9_UpdateFound ==
  InFlight =>
    (update_execute("ok").resp.code = 200 => Owned(put.task_id, put.user_id))

(***************************************************************************)
(* C10.  Once db_pool is None it stays None, and then every request that   *)
(* needs the store is answered without a connection and without a state    *)
(* change: 500 'Database connection failed' by the /api routes, 503        *)
(* 'unhealthy' by /health, the login page with the session untouched by    *)
(* POST /login.                                                            *)
(***************************************************************************)
\* the requests of POST /login that reach get_db_connection()
Credentials == {f \in LoginForms : f.password # "" /\ f.username \notin {"", "   "}}

Unavailable ==
  ~db_pool =>
    /\ checked_out = 0
    /\ \A o \in Outcomes :
         /\ LET r == health_check(o)
            IN  r.resp = Response(503, "unhealthy", "disconnected") /\ Untouched(r)
         /\ \A f \in Credentials :
              LET r == login("POST", f, o)
              IN  /\ r.resp = Response(200, "login.html", "Database connection error")
                  /\ r.session = session
                  /\ Untouched(r)
    /\ Authenticated =>
         \* the /api requests that reach get_db_connection()
         EveryApi(CreateBodies \ NoTitle, LAMBDA r :
           /\ r.resp = Error(500, "Database connection failed")
           /\ r.conn = "refused"
           /\ Untouched(r))

C10_PoolUnavailable == []Unavailable /\ [][~db_pool => ~db_pool']_vars

\* the pool was never created and the browser holds a session
C10_Witness == ~db_pool /\ Authenticated

====
